---- MODULE Spec2Model ----
(***************************************************************************)
(* Model of the Ollama terminal assistant (src/main.cpp): the conversation *)
(* session kept by OllamaAssistant, the three HTTP operations and the      *)
(* interactive loop of TerminalInterface::run.                             *)
(*                                                                         *)
(* A C++ string is a sequence of tokens (chunks of characters), so that    *)
(* concatenation, prefix stripping and line splitting are computed and not *)
(* assumed.  The empty string is <<>>.                                     *)
(***************************************************************************)
EXTENDS Integers, Sequences, FiniteSets, TLC

VARIABLES
    pc,                     \* position of main/run: "start", "prompt", "exited", "terminated", "crashed"
    model_name,             \* OllamaAssistant::model_name
    streaming_enabled,      \* OllamaAssistant::streaming_enabled
    conversation_history,   \* OllamaAssistant::conversation_history
    curl,                   \* options left on the long-lived handle OllamaAssistant::curl
    appended,               \* number of push_back calls since construction or the last clear()
    cin_eof,                \* std::cin has reached the end of its input
    last                    \* what the last completed step of run() read, sent, received and produced

vars == <<pc, model_name, streaming_enabled, conversation_history, curl, appended,
          cin_eof, last>>

----------------------------------------------------------------------------
(* Bounds of the model *)

MaxHistory == 4     \* a chat turn is taken only while the history is shorter than this
MaxLines == 3       \* lines in a chat response body

----------------------------------------------------------------------------
(* Strings and messages *)

SystemPrompt ==
    <<"You are a helpful terminal assistant. Provide clear, concise responses focused on programming and technical help.">>

\* a chunk of bytes that is not valid UTF-8 (a line typed in another encoding)
BadUtf8 == "\\xff"

ValidUtf8(s) == \A i \in 1..Len(s) : s[i] # BadUtf8

Message(role, content) == [role |-> role, content |-> content]

SystemMessage == Message("system", SystemPrompt)

DefaultModel == "llama3.2"

ModelNames == {"llama3.2", "codellama"}

api_url == "http://localhost:11434/api/chat"

tags_url == "http://localhost:11434/api/tags"

HTTP_OK == 200

ChatTimeout == 60

TagsTimeout == 10

----------------------------------------------------------------------------
(* Exceptions: the empty sequence is normal completion *)

NoException == <<>>

Throw(type, what, code) == <<[type |-> type, what |-> what, code |-> code]>>

\* the classes a handler for const std::exception& catches
StdExceptions == {"std::runtime_error", "json::parse_error", "json::type_error",
                  "std::invalid_argument", "std::out_of_range"}

\* the classes a handler for const json::exception& catches
JsonExceptions == {"json::parse_error", "json::type_error"}

----------------------------------------------------------------------------
(* nlohmann::json as used by the chat exchange *)

J_Hel == "{\"message\":{\"content\":\"Hel\"}}"
J_lo == "{\"message\":{\"content\":\"lo\"}}"
J_num == "{\"message\":{\"content\":5}}"
J_done == "{\"done\":true}"

JsonTexts == {J_Hel, J_lo, J_num, J_done}

\* the value a well-formed JSON text stands for, as far as sendMessage looks at it
JsonValue(tok) ==
    CASE tok = J_Hel -> [message |-> "object", content |-> "string", text |-> <<"Hel">>]
      [] tok = J_lo -> [message |-> "object", content |-> "string", text |-> <<"lo">>]
      [] tok = J_num -> [message |-> "object", content |-> "number", text |-> <<"5">>]
      [] tok = J_done -> [message |-> "absent", content |-> "absent", text |-> <<>>]

Whitespace == {"\n"}

RECURSIVE SkipWhitespace(_)
SkipWhitespace(s) ==
    IF s = <<>> THEN <<>>
    ELSE IF Head(s) \in Whitespace THEN SkipWhitespace(Tail(s))
    ELSE <<Head(s)>> \o SkipWhitespace(Tail(s))

\* json::parse: one JSON text, whitespace around it allowed, anything else is a parse_error
JsonParse(text) ==
    LET t == SkipWhitespace(text) IN
    IF Len(t) = 1 /\ t[1] \in JsonTexts
    THEN [ok |-> TRUE, value |-> JsonValue(t[1])]
    ELSE [ok |-> FALSE, value |-> [message |-> "absent", content |-> "absent", text |-> <<>>]]

\* j.contains("message") && j["message"].contains("content")
HasMessageContent(v) == v.message = "object" /\ v.content # "absent"

\* json::dump of the payload: keys in sorted order; strict UTF-8 checking throws type_error 316
dump(payload) ==
    IF \A i \in 1..Len(payload.messages) : ValidUtf8(payload.messages[i].content)
    THEN [ok |-> TRUE,
          text |-> << <<"messages", payload.messages>>,
                      <<"model", payload.model>>,
                      <<"stream", payload.stream>> >>]
    ELSE [ok |-> FALSE, text |-> <<>>]

----------------------------------------------------------------------------
(* OllamaAssistant::sendMessage *)

CURLE_OK == "CURLE_OK"

CurlCodes == {"CURLE_OK", "CURLE_COULDNT_CONNECT", "CURLE_OPERATION_TIMEDOUT"}

\* the assistant message pushed a second time
PushMessage_AssistantTwice(history, role, content) ==
    IF role = "assistant"
    THEN Append(Append(history, [role |-> role, content |-> content]),
                [role |-> role, content |-> content])
    ELSE Append(history, [role |-> role, content |-> content])

\* conversation_history.push_back({{"role", role}, {"content", content}})
PushMessage(history, role, content) == Append(history, Message(role, content))

\* the payload built from the history as it was before the user message was pushed
BuildPayload_BeforePush(history, model, streaming) ==
    [model |-> model, messages |-> SubSeq(history, 1, Len(history) - 1), stream |-> streaming]

\* the payload carrying the system message and the current user message only
BuildPayload_CurrentTurnOnly(history, model, streaming) ==
    [model |-> model, messages |-> <<history[1], history[Len(history)]>>, stream |-> streaming]

\* the payload object of one turn
BuildPayload(history, model, streaming) ==
    [model |-> model, messages |-> history, stream |-> streaming]

\* std::getline over the response body
RECURSIVE GetLines(_)
GetLines(s) ==
    IF s = <<>> THEN <<>>
    ELSE LET nl == {i \in 1..Len(s) : s[i] = "\n"} IN
         IF nl = {} THEN <<s>>
         ELSE LET k == CHOOSE i \in nl : \A j \in nl : i <= j IN
              <<SubSeq(s, 1, k - 1)>> \o GetLines(SubSeq(s, k + 1, Len(s)))

\* line.rfind("data: ", 0) == 0 ? line.substr(6) : line
StripData(line) ==
    IF line # <<>> /\ Head(line) = "data: " THEN Tail(line) ELSE line

\* a chunk that does not parse throws away the reply collected so far
StreamChunk_ErrorDropsReply(line, assistant_reply) ==
    LET p == JsonParse(line) IN
    IF ~p.ok THEN <<>>
    ELSE IF HasMessageContent(p.value) /\ p.value.content = "string"
         THEN assistant_reply \o p.value.text
         ELSE assistant_reply

\* the inner try block of the streaming loop: one chunk added to the reply,
\* a json::exception (parse_error, or type_error of the string conversion) is
\* caught there and the line contributes nothing
StreamChunk(line, assistant_reply) ==
    LET p == JsonParse(line) IN
    IF ~p.ok THEN assistant_reply
    ELSE IF HasMessageContent(p.value)
         THEN IF p.value.content = "string"
              THEN assistant_reply \o p.value.text
              ELSE assistant_reply
         ELSE assistant_reply

RECURSIVE StreamLoop(_, _)
StreamLoop(lines, assistant_reply) ==
    IF lines = <<>> THEN assistant_reply
    ELSE LET line == StripData(Head(lines)) IN
         IF line = <<>> \/ line = <<"[DONE]">>
         THEN StreamLoop(Tail(lines), assistant_reply)
         ELSE StreamLoop(Tail(lines), StreamChunk(line, assistant_reply))

\* the streaming branch: never throws
DecodeStreaming(body) ==
    [exception |-> NoException, reply |-> StreamLoop(GetLines(body), <<>>)]

\* the non-streaming branch indexing message.content without the contains() test
DecodeWhole_NoContainsTest(body) ==
    LET p == JsonParse(body) IN
    IF ~p.ok THEN [exception |-> Throw("json::parse_error", "parse error", 0), reply |-> <<>>]
    ELSE IF p.value.content = "string"
         THEN [exception |-> NoException, reply |-> p.value.text]
         ELSE [exception |-> Throw("json::type_error", "type must be string", 0), reply |-> <<>>]

\* the non-streaming branch: a json::exception leaves the outer try block
DecodeWhole(body) ==
    LET p == JsonParse(body) IN
    IF ~p.ok THEN [exception |-> Throw("json::parse_error", "parse error", 0), reply |-> <<>>]
    ELSE IF HasMessageContent(p.value)
         THEN IF p.value.content = "string"
              THEN [exception |-> NoException, reply |-> p.value.text]
              ELSE [exception |-> Throw("json::type_error", "type must be string", 0), reply |-> <<>>]
         ELSE [exception |-> NoException, reply |-> <<>>]

\* the outer try/catch: a json::exception becomes a runtime_error
DecodeReply(streaming, body) ==
    LET d == IF streaming THEN DecodeStreaming(body) ELSE DecodeWhole(body) IN
    IF d.exception # NoException /\ d.exception[1].type \in JsonExceptions
    THEN [exception |-> Throw("std::runtime_error", "JSON parsing error", 0), reply |-> <<>>]
    ELSE d

\* what curl_easy_perform puts on the wire for the chat request
ChatRequest(json_string) ==
    [url |-> api_url, method |-> "POST",
     headers |-> <<"Content-Type: application/json">>,
     body |-> json_string, timeout |-> ChatTimeout]

\* the options the handle is left with when sendMessage has configured it:
\* the header list was freed, json_string and response went out of scope
HandleAfterChat ==
    [url |-> api_url, method |-> "POST", httpheader |-> "dangling",
     postfields |-> "dangling", writedata |-> "dangling", timeout |-> ChatTimeout]

\* sendMessage(message) against a server answering with server = [res, code, body]
sendMessage(history, model, streaming, handle, message, server) ==
    LET h1 == PushMessage(history, "user", message)
        d == dump(BuildPayload(h1, model, streaming))
    IN
    IF ~d.ok
    THEN [history |-> h1, pushes |-> 1, handle |-> handle, request |-> <<>>,
          outcome |-> "EncodeFailed",
          exception |-> Throw("json::type_error", "invalid UTF-8 byte", 0), reply |-> <<>>]
    ELSE IF server.res # CURLE_OK
    THEN [history |-> h1, pushes |-> 1, handle |-> HandleAfterChat,
          request |-> <<ChatRequest(d.text)>>, outcome |-> "TransportFailed",
          exception |-> Throw("std::runtime_error", "HTTP request failed", 0), reply |-> <<>>]
    ELSE IF server.code # HTTP_OK
    THEN [history |-> h1, pushes |-> 1, handle |-> HandleAfterChat,
          request |-> <<ChatRequest(d.text)>>, outcome |-> "ApiFailed",
          exception |-> Throw("std::runtime_error", "Ollama API request failed with HTTP", server.code),
          reply |-> <<>>]
    ELSE LET r == DecodeReply(streaming, server.body) IN
         IF r.exception # NoException
         THEN [history |-> h1, pushes |-> 1, handle |-> HandleAfterChat,
               request |-> <<ChatRequest(d.text)>>, outcome |-> "DecodeFailed", exception |-> r.exception, reply |-> <<>>]
         ELSE [history |-> PushMessage(h1, "assistant", r.reply), pushes |-> 2,
               handle |-> HandleAfterChat,
               request |-> <<ChatRequest(d.text)>>,
               outcome |-> "Success", exception |-> NoException, reply |-> r.reply]

----------------------------------------------------------------------------
(* OllamaAssistant: construction, clearConversation, getConversationLength *)

\* the history the constructor builds
InitialHistory == PushMessage(<<>>, "system", SystemPrompt)

\* the handle curl_easy_init returns: no option set
FreshHandle ==
    [url |-> "", method |-> "GET", httpheader |-> "null",
     postfields |-> "null", writedata |-> "null", timeout |-> 0]

\* clear() without the push_back of the system message
clearConversation_NoSystemMessage(history) == <<>>

\* the push_back of the system message without the clear() before it
clearConversation_KeepsMessages(history) == PushMessage(history, "system", SystemPrompt)

\* conversation_history.clear() followed by the push_back of the system message
clearConversation(history) == PushMessage(<<>>, "system", SystemPrompt)

\* the size without the subtraction
getConversationLength_CountsSystem(history) == Len(history)

\* conversation_history.size() - 1 in size_t arithmetic; a size_t is written by its
\* two's complement reading, so a negative value is a difference that wrapped around
getConversationLength(history) == Len(history) - 1

----------------------------------------------------------------------------
(* OllamaAssistant::checkOllamaConnection *)

\* the result of curl_easy_perform not looked at
checkOllamaConnection_IgnoresResult(probe) == probe.handle

\* probe = [handle: whether curl_easy_init gave a handle, res: CURLcode, code: HTTP status]
checkOllamaConnection(probe) ==
    IF ~probe.handle THEN FALSE
    ELSE probe.res = CURLE_OK

----------------------------------------------------------------------------
(* OllamaAssistant::getAvailableModels *)

\* a /api/tags body: not JSON at all, or the JSON value it is the text of
\* entry.name: "string" (text is the name), "number" (not a string), "absent"
TagEntries ==
    {[name |-> "string", text |-> m] : m \in ModelNames}
        \cup {[name |-> "number", text |-> ""], [name |-> "absent", text |-> ""]}

\* json::parse(response.data)
ParseTags(body) ==
    IF body.wellformed
    THEN [ok |-> TRUE, root |-> body.root, hasModels |-> body.hasModels, models |-> body.models]
    ELSE [ok |-> FALSE, root |-> "null", hasModels |-> FALSE, models |-> <<>>]

\* the for loop over response_json["models"]: the conversion of a name that is
\* not a string throws json::type_error out of the loop; models keeps what was
\* pushed before
RECURSIVE CollectNames(_, _)
CollectNames(entries, models) ==
    IF entries = <<>> THEN [exception |-> NoException, models |-> models]
    ELSE LET model == Head(entries) IN
         IF model.name = "absent" THEN CollectNames(Tail(entries), models)
         ELSE IF model.name = "string"
              THEN CollectNames(Tail(entries), Append(models, model.text))
              ELSE [exception |-> Throw("json::type_error", "type must be string", 0),
                    models |-> models]

\* the body of the try block
TryParseModels(body) ==
    LET p == ParseTags(body) IN
    IF ~p.ok THEN [exception |-> Throw("json::parse_error", "parse error", 0), models |-> <<>>]
    ELSE IF p.root = "object" /\ p.hasModels
         THEN CollectNames(p.models, <<>>)
         ELSE [exception |-> NoException, models |-> <<>>]

\* the try block with its catch (const json::exception&), whose body is empty:
\* models is left as the try block left it
ParseModels(body) ==
    LET r == TryParseModels(body) IN
    IF r.exception # NoException /\ r.exception[1].type \in JsonExceptions
    THEN [exception |-> NoException, models |-> r.models]
    ELSE r

\* the options getAvailableModels sets on the shared handle; HTTPHEADER and
\* POSTFIELDS keep what an earlier sendMessage left there
HandleAfterTags(handle) ==
    [handle EXCEPT !.url = tags_url, !.writedata = "dangling",
                   !.timeout = TagsTimeout, !.method = "GET"]

\* what the request looks like when the header list the handle points at is
\* (still) readable
TagsRequest(handle) ==
    [url |-> tags_url, method |-> "GET",
     headers |-> IF handle.httpheader = "null" THEN <<>>
                 ELSE <<"Content-Type: application/json">>,
     body |-> <<>>, timeout |-> TagsTimeout]

\* curl_easy_perform reads the list CURLOPT_HTTPHEADER points at: with a freed
\* list that is undefined behaviour, which either goes unnoticed or crashes
PerformOutcomes(handle) ==
    IF handle.httpheader = "dangling" THEN {"as-if-intact", "crash"} ELSE {"defined"}

getAvailableModels(server) ==
    IF server.res = CURLE_OK THEN ParseModels(server.body)
    ELSE [exception |-> NoException, models |-> <<>>]

----------------------------------------------------------------------------
(* TerminalInterface: input dispatch *)

\* std::getline on std::cin: a line of the input, or, when the input is
\* exhausted (now or before), no characters, leaving the string empty
getInput(eof, lines) ==
    IF eof THEN {[line |-> <<>>, eof |-> TRUE]}
    ELSE {[line |-> l, eof |-> FALSE] : l \in lines} \cup {[line |-> <<>>, eof |-> TRUE]}

\* what main returns: 0 after run() returned, 1 from its catch
main_return(at) == CASE at = "exited" -> 0 [] at = "terminated" -> 1

Cmd(name) == <<"/", name>>

\* !input.empty() && input[0] == '/'
isCommand(input) == input # <<>> /\ Head(input) = "/"

\* the branch of handleCommand a command takes
handleCommand(command) ==
    CASE command = Cmd("help") -> "help"
      [] command = Cmd("clear") -> "clear"
      [] command = Cmd("history") -> "history"
      [] command = Cmd("models") -> "models"
      [] command = Cmd("model") -> "model"
      [] command = Cmd("status") -> "status"
      [] command = Cmd("stream") -> "stream"
      [] command = Cmd("quit") \/ command = Cmd("exit") -> "quit"
      [] OTHER -> "unknown"

\* a handler for const json::exception& in the place of the one for std::exception
RunCatch_JsonOnly(e) ==
    IF e = NoException THEN "prompt"
    ELSE IF e[1].type \in JsonExceptions THEN "prompt" ELSE "terminated"

\* where run() goes when sendMessage leaves with exception e: its catch of
\* const std::exception& ends the iteration and the loop goes on
RunCatch(e) ==
    IF e = NoException THEN "prompt"
    ELSE IF e[1].type \in StdExceptions THEN "prompt" ELSE "terminated"

DigitValue(tok) ==
    CASE tok = "0" -> 0 [] tok = "1" -> 1 [] tok = "2" -> 2 [] tok = "3" -> 3

Digits == {"0", "1", "2", "3"}

\* std::stoi: the leading number of the line, std::invalid_argument without one
stoi(line) ==
    IF line # <<>> /\ Head(line) \in Digits
    THEN [exception |-> NoException, value |-> DigitValue(Head(line))]
    ELSE [exception |-> Throw("std::invalid_argument", "stoi", 0), value |-> 0]

\* changeModel once the list is known to be non-empty and the line was read:
\* the model name afterwards
changeModel(model, models, input) ==
    IF input = <<>> THEN model
    ELSE LET c == stoi(input) IN
         IF c.exception # NoException THEN model
         ELSE IF c.value >= 1 /\ c.value <= Len(models) THEN models[c.value]
         ELSE model

----------------------------------------------------------------------------
(* What the user types and what the server answers *)

Inputs ==
    {<<>>, Cmd("help"), Cmd("clear"), Cmd("history"), Cmd("models"), Cmd("model"),
     Cmd("status"), Cmd("stream"), Cmd("quit"), Cmd("exit"), Cmd("bogus"),
     <<"hi">>, <<BadUtf8>>}

\* the line changeModel reads
Choices == {<<>>, <<"1">>, <<"2">>, <<"3">>, <<"x">>}

ModelArgs == {DefaultModel, "mistral"}

TransportFailure == [res |-> "CURLE_COULDNT_CONNECT", code |-> 0, body |-> <<>>]

\* chat responses of the interactive model
ChatBodies ==
    {<<J_Hel>>,
     <<"data: ", J_Hel, "\n", "data: ", J_lo, "\n", "[DONE]">>,
     <<"bad json">>}

ChatServers ==
    {TransportFailure, [res |-> CURLE_OK, code |-> 404, body |-> <<"model not found">>]}
        \cup {[res |-> CURLE_OK, code |-> HTTP_OK, body |-> b] : b \in ChatBodies}

\* every chat body of at most MaxLines lines
LinePayloads == {<<>>, <<"[DONE]">>, <<J_Hel>>, <<J_lo>>, <<J_num>>, <<J_done>>, <<"bad json">>}

Lines == LinePayloads \cup {<<"data: ">> \o l : l \in {<<>>, <<"[DONE]">>, <<J_lo>>}}

RECURSIVE JoinLines(_)
JoinLines(ls) ==
    IF ls = <<>> THEN <<>>
    ELSE IF Len(ls) = 1 THEN ls[1]
    ELSE ls[1] \o <<"\n">> \o JoinLines(Tail(ls))

AllChatBodies ==
    {JoinLines(ls) : ls \in UNION {[1..n -> Lines] : n \in 0..MaxLines}}

AllChatServers ==
    {TransportFailure, [res |-> CURLE_OK, code |-> 404, body |-> <<"model not found">>]}
        \cup {[res |-> CURLE_OK, code |-> HTTP_OK, body |-> b] : b \in AllChatBodies}

NotJson == [wellformed |-> FALSE, root |-> "null", hasModels |-> FALSE, models |-> <<>>]

TagsDoc(entries) ==
    [wellformed |-> TRUE, root |-> "object", hasModels |-> TRUE, models |-> entries]

EmptyObject == [wellformed |-> TRUE, root |-> "object", hasModels |-> FALSE, models |-> <<>>]

Named(m) == [name |-> "string", text |-> m]

TagsFailure == [res |-> "CURLE_COULDNT_CONNECT", code |-> 0, body |-> NotJson]

\* /api/tags responses of the interactive model
TagsServers ==
    {TagsFailure}
        \cup {[res |-> CURLE_OK, code |-> HTTP_OK, body |-> b] :
                b \in {NotJson, EmptyObject,
                       TagsDoc(<<Named("llama3.2"), Named("codellama")>>),
                       TagsDoc(<<Named("llama3.2"), [name |-> "number", text |-> ""]>>)}}

Probes ==
    {[handle |-> FALSE, res |-> "CURLE_FAILED_INIT", code |-> 0]}
        \cup {[handle |-> TRUE, res |-> r, code |-> 0] : r \in CurlCodes \ {CURLE_OK}}
        \cup {[handle |-> TRUE, res |-> CURLE_OK, code |-> c] : c \in {HTTP_OK, 404, 500}}

----------------------------------------------------------------------------
(* The program *)

Step(op, input, choice, request, response, outcome, result, exception) ==
    [op |-> op, input |-> input, choice |-> choice, request |-> request,
     response |-> response, outcome |-> outcome, result |-> result,
     exception |-> exception]

Init ==
    /\ pc = "start"
    /\ model_name \in ModelArgs
    /\ streaming_enabled = TRUE
    /\ conversation_history = InitialHistory
    /\ curl = FreshHandle
    /\ appended = 0
    /\ cin_eof = FALSE
    /\ last = Step("construct", <<>>, <<>>, <<>>, <<>>, "ok", <<>>, NoException)

\* run() up to the loop: initializeConnection
Start ==
    /\ pc = "start"
    /\ \E probe \in Probes :
         LET ok == checkOllamaConnection(probe) IN
         /\ pc' = IF ok THEN "prompt" ELSE "exited"
         /\ last' = Step("start", <<>>, <<>>, <<>>, <<probe>>,
                         IF ok THEN "connected" ELSE "unreachable", <<>>, NoException)
    /\ UNCHANGED <<model_name, streaming_enabled, conversation_history, curl, appended,
                   cin_eof>>

\* an empty line: continue
EmptyLine ==
    /\ pc = "prompt"
    /\ \E read \in getInput(cin_eof, Inputs) : LET input == read.line IN
         /\ cin_eof' = read.eof
         /\ input = <<>>
         /\ last' = Step("empty", input, <<>>, <<>>, <<>>, "ok", <<>>, NoException)
    /\ UNCHANGED <<pc, model_name, streaming_enabled, conversation_history, curl, appended>>

\* /help, /history and an unknown command only print
PrintOnly(op) ==
    /\ pc = "prompt"
    /\ \E read \in getInput(cin_eof, Inputs) : LET input == read.line IN
         /\ cin_eof' = read.eof
         /\ isCommand(input)
         /\ handleCommand(input) = op
         /\ last' = Step(op, input, <<>>, <<>>, <<>>, "ok", <<>>, NoException)
    /\ UNCHANGED <<pc, model_name, streaming_enabled, conversation_history, curl, appended>>

Help == PrintOnly("help")

History == PrintOnly("history")

Unknown == PrintOnly("unknown")

\* /clear that also puts the default model back
Clear_ResetsModel ==
    /\ pc = "prompt"
    /\ \E read \in getInput(cin_eof, Inputs) : LET input == read.line IN
         /\ cin_eof' = read.eof
         /\ isCommand(input)
         /\ handleCommand(input) = "clear"
         /\ conversation_history' = clearConversation(conversation_history)
         /\ model_name' = DefaultModel
         /\ appended' = 0
         /\ last' = Step("clear", input, <<>>, <<>>, <<>>, "ok", <<>>, NoException)
    /\ UNCHANGED <<pc, streaming_enabled, curl>>

\* /clear
Clear ==
    /\ pc = "prompt"
    /\ \E read \in getInput(cin_eof, Inputs) : LET input == read.line IN
         /\ cin_eof' = read.eof
         /\ isCommand(input)
         /\ handleCommand(input) = "clear"
         /\ conversation_history' = clearConversation(conversation_history)
         /\ appended' = 0
         /\ last' = Step("clear", input, <<>>, <<>>, <<>>, "ok", <<>>, NoException)
    /\ UNCHANGED <<pc, model_name, streaming_enabled, curl>>

\* /stream: toggleStreaming
Stream ==
    /\ pc = "prompt"
    /\ \E read \in getInput(cin_eof, Inputs) : LET input == read.line IN
         /\ cin_eof' = read.eof
         /\ isCommand(input)
         /\ handleCommand(input) = "stream"
         /\ streaming_enabled' = ~streaming_enabled
         /\ last' = Step("stream", input, <<>>, <<>>, <<>>, "ok", <<>>, NoException)
    /\ UNCHANGED <<pc, model_name, conversation_history, curl, appended>>

\* /status: checkStatus
Status ==
    /\ pc = "prompt"
    /\ \E read \in getInput(cin_eof, Inputs), probe \in Probes : LET input == read.line IN
         /\ cin_eof' = read.eof
         /\ isCommand(input)
         /\ handleCommand(input) = "status"
         /\ last' = Step("status", input, <<>>, <<>>, <<probe>>,
                         IF checkOllamaConnection(probe) THEN "connected" ELSE "unreachable",
                         <<>>, NoException)
    /\ UNCHANGED <<pc, model_name, streaming_enabled, conversation_history, curl, appended>>

\* /quit and /exit
Quit ==
    /\ pc = "prompt"
    /\ \E read \in getInput(cin_eof, Inputs) : LET input == read.line IN
         /\ cin_eof' = read.eof
         /\ isCommand(input)
         /\ handleCommand(input) = "quit"
         /\ pc' = "exited"
         /\ last' = Step("quit", input, <<>>, <<>>, <<>>, "ok", <<>>, NoException)
    /\ UNCHANGED <<model_name, streaming_enabled, conversation_history, curl, appended>>

\* /models: showAvailableModels
ShowModels(servers) ==
    /\ pc = "prompt"
    /\ \E read \in getInput(cin_eof, Inputs), server \in servers,
          ub \in PerformOutcomes(curl) : LET input == read.line IN
         /\ cin_eof' = read.eof
         /\ isCommand(input)
         /\ handleCommand(input) = "models"
         /\ curl' = HandleAfterTags(curl)
         /\ IF ub = "crash"
            THEN /\ pc' = "crashed"
                 /\ last' = Step("models", input, <<>>, <<>>, <<>>, "crashed", <<>>, NoException)
            ELSE LET r == getAvailableModels(server) IN
                 /\ pc' = RunCatch(r.exception)
                 /\ last' = Step("models", input, <<>>, <<TagsRequest(curl)>>, <<server>>,
                                 "returned", r.models, r.exception)
    /\ UNCHANGED <<model_name, streaming_enabled, conversation_history, appended>>

\* /model: changeModel, which reads a second line when the list is not empty
ChangeModel(servers) ==
    /\ pc = "prompt"
    /\ \E read \in getInput(cin_eof, Inputs), server \in servers,
          ub \in PerformOutcomes(curl) : LET input == read.line IN
         /\ isCommand(input)
         /\ handleCommand(input) = "model"
         /\ curl' = HandleAfterTags(curl)
         /\ IF ub = "crash"
            THEN /\ pc' = "crashed"
                 /\ model_name' = model_name
                 /\ cin_eof' = read.eof
                 /\ last' = Step("model", input, <<>>, <<>>, <<>>, "crashed", <<>>, NoException)
            ELSE LET r == getAvailableModels(server) IN
                 /\ pc' = RunCatch(r.exception)
                 /\ IF r.models = <<>>
                    THEN /\ model_name' = model_name
                         /\ cin_eof' = read.eof
                         /\ last' = Step("model", input, <<>>, <<TagsRequest(curl)>>,
                                         <<server>>, "returned", r.models, r.exception)
                    ELSE \E second \in getInput(read.eof, Choices) :
                         LET choice == second.line IN
                         /\ cin_eof' = second.eof
                         /\ model_name' = changeModel(model_name, r.models, choice)
                         /\ last' = Step("model", input, choice, <<TagsRequest(curl)>>,
                                         <<server>>, "returned", r.models, r.exception)
    /\ UNCHANGED <<streaming_enabled, conversation_history, appended>>

\* any other non-empty line: one chat turn
ChatTurn(inputs, servers) ==
    /\ pc = "prompt"
    /\ Len(conversation_history) < MaxHistory
    /\ \E read \in getInput(cin_eof, inputs), server \in servers : LET input == read.line IN
         /\ cin_eof' = read.eof
         /\ input # <<>>
         /\ ~isCommand(input)
         /\ LET r == sendMessage(conversation_history, model_name, streaming_enabled,
                                 curl, input, server)
            IN /\ conversation_history' = r.history
               /\ curl' = r.handle
               /\ appended' = appended + r.pushes
               /\ pc' = RunCatch(r.exception)
               /\ last' = Step("chat", input, <<>>, r.request,
                               IF r.request = <<>> THEN <<>> ELSE <<server>>,
                               r.outcome, r.reply, r.exception)
    /\ UNCHANGED <<model_name, streaming_enabled>>

Models == ShowModels(TagsServers)

Model == ChangeModel(TagsServers)

Chat == ChatTurn(Inputs, ChatServers)

Next ==
    \/ Start
    \/ EmptyLine
    \/ Help
    \/ History
    \/ Unknown
    \/ Clear
    \/ Stream
    \/ Status
    \/ Quit
    \/ Models
    \/ Model
    \/ Chat

Spec == Init /\ [][Next]_vars

\* the reply decoders on every bounded response body: the first turn of a
\* session, in either streaming mode
DecodeChat ==
    /\ conversation_history = InitialHistory
    /\ ChatTurn({<<"hi">>}, AllChatServers)

NextDecode ==
    \/ Start
    \/ Stream
    \/ DecodeChat

SpecDecode == Init /\ [][NextDecode]_vars

----------------------------------------------------------------------------
(* Properties *)

AssistantCount(h) == Cardinality({i \in 1..Len(h) : h[i].role = "assistant"})

\* the value of a key in a serialized payload
Field(text, key) == text[CHOOSE i \in 1..Len(text) : text[i][1] = key][2]

ChatFailures == {"TransportFailed", "ApiFailed", "DecodeFailed", "EncodeFailed"}

\* C1: in every reachable state the history is non-empty, its first element is
\* the system message with the fixed instruction text, and no other element
\* has role "system".
C1_SystemMessageFirstAndOnly ==
    /\ Len(conversation_history) >= 1
    /\ conversation_history[1].role = "system"
    /\ conversation_history[1].content = SystemPrompt
    /\ \A i \in 2..Len(conversation_history) : conversation_history[i].role # "system"

\* a /clear given after a chat request had been performed
C1_Witness ==
    /\ last.op = "clear"
    /\ curl.httpheader = "dangling"
    /\ Len(conversation_history) = 1

\* C2: a chat turn answered with a status other than 200 signals an API error
\* carrying the status code, the loop goes back to the prompt, and the history
\* after the failed turn equals the history before it.
C2_FailedTurnLeavesHistory ==
    [][(last'.op = "chat" /\ last'.outcome = "ApiFailed")
          => /\ last'.exception # NoException
             /\ last'.exception[1].code = last'.response[1].code
             /\ pc' = "prompt"
             /\ conversation_history' = conversation_history]_vars

\* C3: an assistant message is appended only by a chat turn that succeeded
\* (transport OK, status 200, decode OK); such a turn appends exactly one, at the
\* end of the history, with the returned reply as content, right after the user
\* message of the turn.
C3_AssistantOnlyOnSuccess ==
    [][LET h == conversation_history
           h2 == conversation_history'
           grown == Len(h2) >= Len(h) /\ SubSeq(h2, 1, Len(h)) = h
           added == IF grown THEN AssistantCount(h2) - AssistantCount(h)
                    ELSE AssistantCount(h2)
       IN IF last'.op = "chat" /\ last'.outcome = "Success"
          THEN /\ last'.response[1].res = CURLE_OK
               /\ last'.response[1].code = HTTP_OK
               /\ last'.exception = NoException
               /\ added = 1
               /\ h2 = h \o <<[role |-> "user", content |-> last'.input],
                              [role |-> "assistant", content |-> last'.result]>>
          ELSE added = 0]_vars

\* a successful turn whose reply is the empty string
C3_Witness ==
    /\ last.op = "chat"
    /\ last.outcome = "Success"
    /\ last.result = <<>>
    /\ conversation_history[Len(conversation_history)] = [role |-> "assistant", content |-> <<>>]

\* C4: getConversationLength equals the number of user and assistant messages
\* pushed since construction or the last reset, which is the history size minus
\* one; it is 0 after construction and after /clear, and the subtraction never
\* wraps around.
C4_LengthCountsTurns ==
    /\ getConversationLength(conversation_history) = appended
    /\ getConversationLength(conversation_history) >= 0
    /\ getConversationLength(conversation_history) =
         Cardinality({i \in 1..Len(conversation_history) :
                        conversation_history[i].role \in {"user", "assistant"}})
    /\ last.op \in {"construct", "clear"} => getConversationLength(conversation_history) = 0

\* a failed turn followed by a successful one: three messages after the system message
C4_Witness ==
    /\ last.op = "chat"
    /\ last.outcome = "Success"
    /\ appended = 3
    /\ getConversationLength(conversation_history) = 3

\* C5: the body of a chat request carries, as messages, the history at the
\* moment of sending (the system message first, the user message just submitted
\* last), as model the selected model and as stream the streaming flag.
C5_PayloadIsSession ==
    (last.op = "chat" /\ last.request # <<>>)
        => LET body == last.request[1].body
               sent == IF last.outcome = "Success"
                       THEN SubSeq(conversation_history, 1, Len(conversation_history) - 1)
                       ELSE conversation_history
           IN /\ last.request[1].url = api_url
              /\ Field(body, "messages") = sent
              /\ Len(sent) >= 2
              /\ sent[1] = [role |-> "system", content |-> SystemPrompt]
              /\ sent[Len(sent)] = [role |-> "user", content |-> last.input]
              /\ Field(body, "model") = model_name
              /\ Field(body, "stream") = streaming_enabled

\* the request of a second turn, sent in non-streaming mode with another model selected
C5_Witness ==
    /\ last.op = "chat"
    /\ last.request # <<>>
    /\ Len(Field(last.request[1].body, "messages")) = 3
    /\ Field(last.request[1].body, "stream") = FALSE
    /\ Field(last.request[1].body, "model") = "codellama"

\* a line of a streamed body without its "data: " prefix
Unprefixed(l) == IF Len(l) >= 1 /\ l[1] = "data: " THEN SubSeq(l, 2, Len(l)) ELSE l

IsJsonText(t) == Len(t) = 1 /\ t[1] \in JsonTexts

\* the line is the text of a JSON object that has message.content
\* (stringsOnly: and that content is a string)
CarriesContent(l, stringsOnly) ==
    /\ IsJsonText(Unprefixed(l))
    /\ JsonValue(Unprefixed(l)[1]).message = "object"
    /\ JsonValue(Unprefixed(l)[1]).content # "absent"
    /\ stringsOnly => JsonValue(Unprefixed(l)[1]).content = "string"

\* the contents of the lines that carry one, concatenated in line order
RECURSIVE ContentsInOrder(_, _)
ContentsInOrder(lines, stringsOnly) ==
    IF lines = <<>> THEN <<>>
    ELSE ContentsInOrder(SubSeq(lines, 1, Len(lines) - 1), stringsOnly)
            \o (IF CarriesContent(lines[Len(lines)], stringsOnly)
                THEN JsonValue(Unprefixed(lines[Len(lines)])[1]).text
                ELSE <<>>)

StreamedOk ==
    /\ last.op = "chat"
    /\ streaming_enabled
    /\ last.response # <<>>
    /\ last.response[1].res = CURLE_OK
    /\ last.response[1].code = HTTP_OK

\* C6 as stated: with streaming enabled and a 200 body the turn succeeds and the
\* reply is the concatenation, in line order, of the message.content of every
\* line that parses as a JSON object containing message.content.
C6_ReplyIsEveryContent ==
    StreamedOk
        => /\ last.outcome = "Success"
           /\ last.result = ContentsInOrder(GetLines(last.response[1].body), FALSE)

\* C6 as amended: with streaming enabled and a 200 body the turn succeeds and
\* the reply is the concatenation, in line order, of the message.content of
\* every line that parses as a JSON object whose message.content is a string;
\* a line that does not parse, or whose message.content is not a string, is
\* skipped without losing the content of the other lines.
C6_ReplyIsEveryStringContent ==
    StreamedOk
        => /\ last.outcome = "Success"
           /\ last.exception = NoException
           /\ last.result = ContentsInOrder(GetLines(last.response[1].body), TRUE)
           /\ conversation_history[Len(conversation_history)] =
                [role |-> "assistant", content |-> last.result]

\* a content that is not a string between two chunks, the second one prefixed
C6_Witness ==
    /\ StreamedOk
    /\ last.response[1].body = <<J_Hel, "\n", J_num, "\n", "data: ", J_lo>>
    /\ last.result = <<"Hel", "lo">>

WholeOk ==
    /\ last.op = "chat"
    /\ ~streaming_enabled
    /\ last.response # <<>>
    /\ last.response[1].res = CURLE_OK
    /\ last.response[1].code = HTTP_OK

\* the body without its line breaks
RECURSIVE NoNewlines(_)
NoNewlines(body) ==
    IF body = <<>> THEN <<>>
    ELSE (IF body[1] = "\n" THEN <<>> ELSE <<body[1]>>) \o NoNewlines(Tail(body))

DecodeErrorNoAssistant ==
    /\ last.outcome = "DecodeFailed"
    /\ last.exception # NoException
    /\ last.exception[1].what = "JSON parsing error"
    /\ conversation_history[Len(conversation_history)] =
         [role |-> "user", content |-> last.input]

SuccessWithReply(reply) ==
    /\ last.outcome = "Success"
    /\ last.result = reply
    /\ conversation_history[Len(conversation_history)] =
         [role |-> "assistant", content |-> reply]

\* C7 as stated: with streaming disabled and a 200 body, a body that is JSON
\* with message.content present gives that content as reply, one without it the
\* empty reply (both succeed), and a body that is not JSON a decode error with
\* no assistant message appended.
C7_WholeBodyDecode ==
    WholeOk
        => LET t == NoNewlines(last.response[1].body) IN
           IF IsJsonText(t)
           THEN IF CarriesContent(t, FALSE)
                THEN SuccessWithReply(JsonValue(t[1]).text)
                ELSE SuccessWithReply(<<>>)
           ELSE DecodeErrorNoAssistant

\* C7 as amended: with streaming disabled and a 200 body, a body that is JSON
\* with a string message.content gives that content as reply, one without
\* message.content the empty reply (both succeed), and a body that is not JSON,
\* or whose message.content is not a string, a decode error with no assistant
\* message appended.
C7_WholeBodyDecodeStrings ==
    WholeOk
        => LET t == NoNewlines(last.response[1].body) IN
           IF IsJsonText(t) /\ CarriesContent(t, TRUE)
           THEN SuccessWithReply(JsonValue(t[1]).text)
           ELSE IF IsJsonText(t) /\ ~CarriesContent(t, FALSE)
           THEN SuccessWithReply(<<>>)
           ELSE DecodeErrorNoAssistant

\* a body without message.content: the empty reply, appended
C7_Witness ==
    /\ WholeOk
    /\ last.response[1].body = <<J_done, "\n">>
    /\ last.outcome = "Success"
    /\ last.result = <<>>
    /\ Len(conversation_history) = 3

\* C8: after a failed chat turn the exception is caught by the loop, the
\* program is back at the prompt, and the selected model and the streaming flag
\* are what they were before the turn.
C8_FailedTurnBackToPrompt ==
    [][(last'.op = "chat" /\ last'.outcome \in ChatFailures)
          => /\ last'.exception # NoException
             /\ pc' = "prompt"
             /\ model_name' = model_name
             /\ streaming_enabled' = streaming_enabled]_vars

\* a decode failure in non-streaming mode, the program back at the prompt
C8_Witness ==
    /\ last.op = "chat"
    /\ last.outcome = "DecodeFailed"
    /\ ~streaming_enabled
    /\ pc = "prompt"

\* the names of the entries that have one, in order
RECURSIVE NamesOf(_)
NamesOf(entries) ==
    IF entries = <<>> THEN <<>>
    ELSE (IF entries[1].name = "absent" THEN <<>> ELSE <<entries[1].text>>)
            \o NamesOf(Tail(entries))

\* C9: getAvailableModels returns the names of the entries of models that have
\* one, in server order; it returns the empty sequence when there is no models
\* field, when the body is not JSON and on any other parse failure, never a
\* partial list; it never raises.
C9_ModelsAllOrNothing ==
    (last.op \in {"models", "model"} /\ last.outcome = "returned")
        => LET body == last.response[1].body
               parsed == /\ last.response[1].res = CURLE_OK
                         /\ body.wellformed
                         /\ body.root = "object"
                         /\ body.hasModels
                         /\ \A i \in 1..Len(body.models) : body.models[i].name # "number"
           IN /\ last.exception = NoException
              /\ last.result = IF parsed THEN NamesOf(body.models) ELSE <<>>

\* C10 as stated: checkOllamaConnection does not raise, returns false when the
\* server is unreachable or no handle could be made, and returns true only when
\* the request got a successful response.
C10_TrueOnlyOnSuccessfulResponse ==
    (last.op \in {"start", "status"})
        => LET probe == last.response[1] IN
           /\ last.exception = NoException
           /\ (~probe.handle \/ probe.res # CURLE_OK) => last.outcome = "unreachable"
           /\ last.outcome = "connected"
                => (probe.handle /\ probe.res = CURLE_OK /\ probe.code = HTTP_OK)

\* C10 as amended: checkOllamaConnection does not raise, returns false when the
\* server is unreachable or no handle could be made, and returns true exactly
\* when the transfer completed without a transport error, whatever the HTTP
\* status of the response.
C10_TrueIffTransferCompleted ==
    (last.op \in {"start", "status"})
        => LET probe == last.response[1] IN
           /\ last.exception = NoException
           /\ (~probe.handle \/ probe.res # CURLE_OK) => last.outcome = "unreachable"
           /\ last.outcome = "connected" <=> (probe.handle /\ probe.res = CURLE_OK)

\* /status with the server not listening
C10_Witness ==
    /\ last.op = "status"
    /\ last.response[1].res = "CURLE_COULDNT_CONNECT"
    /\ last.outcome = "unreachable"
    /\ pc = "prompt"

\* C11: every step other than /clear leaves the history it found as a prefix of
\* the history it leaves (nothing removed, reordered or modified), and /clear
\* leaves exactly the one-element history of construction.
C11_GrowsAtEndOrResets ==
    [][IF last'.op = "clear"
       THEN conversation_history' = <<[role |-> "system", content |-> SystemPrompt]>>
       ELSE /\ Len(conversation_history') >= Len(conversation_history)
            /\ SubSeq(conversation_history', 1, Len(conversation_history))
                 = conversation_history]_vars

\* a turn that failed followed by one more turn: the history grew twice at its end
C11_Witness ==
    /\ last.op = "chat"
    /\ Len(conversation_history) = 3
    /\ conversation_history[2].role = "user"
    /\ conversation_history[3].role = "user"

\* C12: /model, whatever is typed at its prompt, and /stream leave the history
\* as it is; /clear leaves the selected model and the streaming flag as they are.
C12_SettingsAndHistoryIndependent ==
    [][/\ last'.op \in {"model", "stream"}
            => conversation_history' = conversation_history
       /\ last'.op = "clear"
            => /\ model_name' = model_name
               /\ streaming_enabled' = streaming_enabled]_vars

\* the second listed model chosen with one turn in the history
C12_Witness ==
    /\ last.op = "model"
    /\ last.choice = <<"2">>
    /\ model_name = "codellama"
    /\ Len(conversation_history) = 3

UserCount(h) == Cardinality({i \in 1..Len(h) : h[i].role = "user"})

\* C13: an empty line changes nothing and sends nothing; a line starting with
\* '/' is never sent as a chat turn and appends nothing (an unknown one leaves
\* the program at the prompt); every other line is sent as exactly one chat
\* request and appends exactly one user message, whose content is the line.
C13_InputDispatch ==
    [][/\ last'.op = "empty"
            => /\ last'.request = <<>>
               /\ UNCHANGED <<pc, model_name, streaming_enabled, conversation_history, curl>>
       /\ isCommand(last'.input)
            => /\ last'.op # "chat"
               /\ last'.request = <<>> \/ last'.request[1].url # api_url
               /\ Len(conversation_history') <= Len(conversation_history)
               /\ handleCommand(last'.input) = "unknown" => pc' = "prompt"
       /\ (last'.input # <<>> /\ ~isCommand(last'.input))
            => /\ last'.op = "chat"
               /\ Len(last'.request) = 1
               /\ last'.request[1].url = api_url
               /\ UserCount(conversation_history') = UserCount(conversation_history) + 1
               /\ Len(conversation_history') > Len(conversation_history)
               /\ conversation_history'[Len(conversation_history) + 1]
                    = [role |-> "user", content |-> last'.input]]_vars

\* every assistant message directly follows a user message, and there are no
\* more assistant messages than user messages
TurnsWellFormed(h) ==
    /\ \A i \in 1..Len(h) : h[i].role = "assistant" => (i > 1 /\ h[i - 1].role = "user")
    /\ AssistantCount(h) <= UserCount(h)

\* C14: in every reachable state each assistant message directly follows a user
\* message and there are no more assistant than user messages; a failed turn
\* leaves its user message at the end of the history, and the request of every
\* turn carries all the messages the history held before it, those of failed
\* turns included, followed by the new user message.
C14_FailedTurnsStayAndAreSent ==
    [][/\ TurnsWellFormed(conversation_history')
       /\ (last'.op = "chat" /\ last'.outcome \in ChatFailures)
            => conversation_history'
                 = conversation_history \o <<[role |-> "user", content |-> last'.input]>>
       /\ (last'.op = "chat" /\ last'.request # <<>>)
            => Field(last'.request[1].body, "messages")
                 = conversation_history \o <<[role |-> "user", content |-> last'.input]>>]_vars

\* the user message of a failed turn, still there and sent with the next turn,
\* which succeeded
C14_Witness ==
    /\ last.op = "chat"
    /\ last.outcome = "Success"
    /\ Len(conversation_history) = 4
    /\ conversation_history[2].role = "user"
    /\ conversation_history[3].role = "user"
    /\ conversation_history[4].role = "assistant"
    /\ Field(last.request[1].body, "messages") = SubSeq(conversation_history, 1, 3)

\* C15: no request is performed on the long-lived handle while one of its
\* options still refers to a released resource: whenever /models or /model has
\* just run its request, the handle it ran on (its options as left by that
\* request, which sets the URL, the write target, the timeout and the method
\* only) does not point at a header list that has been freed.
C15_NoRequestOnFreedHeaders ==
    last.op \in {"models", "model"} => curl.httpheader # "dangling"

\* C16: once the loop has started the program leaves it if and only if the line
\* it read is exactly "/quit" or "/exit", and then main returns 0; every other
\* read, the empty one of an exhausted input included, leads back to the
\* prompt, so with the input exhausted the loop never ends.
C16_EndsOnlyOnQuit ==
    [][pc = "prompt" =>
         /\ (pc' # "prompt") <=> (last'.input \in {Cmd("quit"), Cmd("exit")})
         /\ (pc' # "prompt") => (pc' = "exited" /\ main_return(pc') = 0)
         /\ cin_eof => (pc' = "prompt" /\ cin_eof' /\ last'.input = <<>>)]_vars

====
